---------------------------- MODULE Spec2Model ----------------------------
(***************************************************************************)
(* A model of classify_nuImages.py: the categorisation of the files of the *)
(* source directory by the hour in their names, the two sampling calls of  *)
(* distribute_files (fairness pass, greedy fill pass), the subset copies,   *)
(* the full copy and the report totals.                                     *)
(*                                                                         *)
(* A file name is a sequence of one-character strings, so that split('-'), *)
(* the [:2] slice and int() are computed as Python computes them.          *)
(*                                                                         *)
(* The script has 24 hours with day = range(6, 18) and asks for 50 images  *)
(* per group.  The model keeps the structure (a block of day hours in the  *)
(* middle of the hour range, night its complement) at a smaller scale:     *)
(* NumHours hours, and requested counts drawn from 0..MaxReq.              *)
(***************************************************************************)
EXTENDS Integers, Sequences, FiniteSets, TLC

\* ----------------------------------------------------------------- bounds
\* Number of hours of the scaled day (the script: range(24)).
NumHours == 6
\* Largest number of files in the source directory.
MaxFiles == 3
\* Files the directory may hold for one populated hour.
MaxSerial == 2
\* Largest value drawn for IMAGE_SELECTION_COUNT_DAY / _NIGHT (the script: 50).
MaxReq == 3

\* First day hour and first hour after the day block (the script: 6 and 18).
DayStart == (NumHours \div 2) - 1
DayEnd == (NumHours \div 2) + 1

\* ------------------------------------------------------------ Python bits
Min(a, b) == IF a < b THEN a ELSE b

Range(s) == {s[i] : i \in 1..Len(s)}

RECURSIVE SumSeq(_)
SumSeq(s) == IF s = <<>> THEN 0 ELSE Head(s) + SumSeq(Tail(s))

\* range(a, b) as a list
RECURSIVE PyRange(_, _)
PyRange(a, b) == IF a >= b THEN <<>> ELSE <<a>> \o PyRange(a + 1, b)

\* [x for x in s if x not in drop]
RECURSIVE Without(_, _)
Without(s, drop) ==
    IF s = <<>> THEN <<>>
    ELSE IF Head(s) \in drop THEN Without(Tail(s), drop)
         ELSE <<Head(s)>> \o Without(Tail(s), drop)

\* list.remove(x): drops the first occurrence of x
RECURSIVE ListRemove(_, _)
ListRemove(s, x) ==
    IF s = <<>> THEN <<>>
    ELSE IF Head(s) = x THEN Tail(s)
         ELSE <<Head(s)>> \o ListRemove(Tail(s), x)

\* dict.get(key, default)
DictGet(d, key, default) == IF key \in DOMAIN d THEN d[key] ELSE default

\* d[key] = value
DictSet(d, key, value) ==
    [k \in (DOMAIN d) \cup {key} |-> IF k = key THEN value ELSE d[k]]

EmptyDict == [k \in {} |-> 0]

\* str.split('-'): the fields between the dashes, empty fields included
DashPositions(s) == {i \in 1..Len(s) : s[i] = "-"}

\* the position of the n-th dash; 0 and Len(s) + 1 stand for the two ends
Cut(s, n) ==
    IF n = 0 THEN 0
    ELSE IF n > Cardinality(DashPositions(s)) THEN Len(s) + 1
    ELSE CHOOSE i \in DashPositions(s) :
            Cardinality({j \in DashPositions(s) : j <= i}) = n

Split(s) ==
    [k \in 1..(Cardinality(DashPositions(s)) + 1) |->
        SubSeq(s, Cut(s, k - 1) + 1, Cut(s, k) - 1)]

\* s[:n]
Slice(s, n) == SubSeq(s, 1, Min(n, Len(s)))

DigitChars == {"0", "1", "2", "3", "4", "5", "6", "7", "8", "9"}

DigitVal(c) ==
    CASE c = "0" -> 0 [] c = "1" -> 1 [] c = "2" -> 2 [] c = "3" -> 3
      [] c = "4" -> 4 [] c = "5" -> 5 [] c = "6" -> 6 [] c = "7" -> 7
      [] c = "8" -> 8 [] c = "9" -> 9

DigitChar(n) ==
    CASE n = 0 -> "0" [] n = 1 -> "1" [] n = 2 -> "2" [] n = 3 -> "3"
      [] n = 4 -> "4" [] n = 5 -> "5" [] n = 6 -> "6" [] n = 7 -> "7"
      [] n = 8 -> "8" [] n = 9 -> "9"

RECURSIVE StripLeft(_)
StripLeft(s) ==
    IF s # <<>> /\ Head(s) = " " THEN StripLeft(Tail(s)) ELSE s

RECURSIVE StripRight(_)
StripRight(s) ==
    IF s # <<>> /\ s[Len(s)] = " " THEN StripRight(SubSeq(s, 1, Len(s) - 1))
    ELSE s

RECURSIVE DigitsValue(_, _)
DigitsValue(s, acc) ==
    IF s = <<>> THEN acc ELSE DigitsValue(Tail(s), 10 * acc + DigitVal(Head(s)))

ValueError == [ok |-> FALSE, val |-> 0]

\* (CHOOSE r \in {F(x) : x \in {e}} : TRUE is F(e), with e evaluated once.)

\* the digits of a stripped string, after its sign if it has one
IntOfStripped(t) ==
    LET signed == t # <<>> /\ Head(t) \in {"+", "-"}
        d == IF signed THEN Tail(t) ELSE t
    IN  IF d = <<>> \/ \E i \in 1..Len(d) : d[i] \notin DigitChars
        THEN ValueError
        ELSE [ok |-> TRUE,
              val |-> IF signed /\ Head(t) = "-"
                      THEN 0 - DigitsValue(d, 0) ELSE DigitsValue(d, 0)]

\* int(s) for a slice of at most two characters: surrounding whitespace is
\* stripped, one sign is allowed, the rest must be decimal digits (a digit
\* separator '_' needs three characters and cannot occur in the slice).
PyInt(s) ==
    CHOOSE r \in {IntOfStripped(t) : t \in {StripRight(StripLeft(s))}} : TRUE

IndexError == [ok |-> FALSE, val |-> 0]

\* fields[4][:2] as an integer; an IndexError when there is no field 4
HourOfFields(fields) ==
    IF Len(fields) < 5 THEN IndexError
    ELSE CHOOSE r \in {PyInt(x) : x \in {Slice(fields[5], 2)}} : TRUE

\* int(file_name.split('-')[4][:2])
HourOf(file_name) ==
    CHOOSE r \in {HourOfFields(fields) : fields \in {Split(file_name)}} : TRUE

\* ------------------------------------------------------------- file names
\* "n-y-m-d-HH-s": a well-formed name of hour h, told apart by the serial s
MkName(h, s) ==
    <<"n", "-", "y", "-", "m", "-", "d", "-",
      DigitChar(h \div 10), DigitChar(h % 10), "-", DigitChar(s)>>

\* The hours the directory may hold files of: two day hours, two night hours.
PopulatedHours == <<0, DayStart, DayStart + 1, NumHours - 1>>

\* "n-y-01": three fields
NameFewFields == <<"n", "-", "y", "-", "0", "1">>
\* "n-y-m-d-x1-1": the hour field does not start with two digits
NameNotDigits == <<"n", "-", "y", "-", "m", "-", "d", "-", "x", "1", "-", "1">>
\* "n-y-m-d-99-1": two digits that are no hour
NameHour99 == <<"n", "-", "y", "-", "m", "-", "d", "-", "9", "9", "-", "1">>
\* "n-y-m-d-0": field 4 is the one character "0"
NameOneDigit == <<"n", "-", "y", "-", "m", "-", "d", "-", "0">>

\* Every name the directory may hold, in the order os.listdir reports them.
RECURSIVE NamesOfHours(_)
NamesOfHours(hs) ==
    IF hs = <<>> THEN <<>>
    ELSE [s \in 1..MaxSerial |-> MkName(Head(hs), s)] \o NamesOfHours(Tail(hs))

Universe ==
    NamesOfHours(PopulatedHours)
        \o <<NameFewFields, NameNotDigits, NameHour99, NameOneDigit>>

\* The directory listings: the non-empty choices of at most MaxFiles names
\* (line 45 exits before anything else when the directory holds no image).
RECURSIVE Pick(_, _)
Pick(s, keep) ==
    IF s = <<>> THEN <<>>
    ELSE IF Len(s) \in keep THEN <<Head(s)>> \o Pick(Tail(s), keep)
         ELSE Pick(Tail(s), keep)

Listings ==
    {Pick(Universe, keep) : keep \in
        {k \in SUBSET (1..Len(Universe)) : Cardinality(k) \in 1..MaxFiles}}

\* --------------------------------------------------------------- settings
\* COPY_TO_FULL (line 33): "timeslots", "daynight" or "None"
COPY_TO_FULL == "daynight"

VARIABLES
    pc,                          \* where the script is
    all_files,                   \* os.listdir(source_directory)
    IMAGE_SELECTION_COUNT_DAY,   \* the two requested counts
    IMAGE_SELECTION_COUNT_NIGHT,
    DAY_HOURS, NIGHT_HOURS,      \* the two module-level lists of hours
    files_dict,                  \* hour -> list of file names
    ci,                          \* position of the categorising loop
    call,                        \* the running call of distribute_files
    counts,                      \* its locals, lines 88-101 ...
    total_files_required,
    average_files,
    selected_files,
    selection_count_per_hour,
    fi, gi,                      \* ... and the positions of its two for loops
    day_files, day_counts,       \* the two results
    night_files, night_counts,
    subset,                      \* subset/daytime and subset/nighttime
    full,                        \* full/<folder>
    report                       \* the totals of report.md

vars == <<pc, all_files, IMAGE_SELECTION_COUNT_DAY, IMAGE_SELECTION_COUNT_NIGHT,
          DAY_HOURS, NIGHT_HOURS, files_dict, ci, call, counts,
          total_files_required, average_files, selected_files,
          selection_count_per_hour, fi, gi, day_files, day_counts,
          night_files, night_counts, subset, full, report>>

settings == <<all_files, IMAGE_SELECTION_COUNT_DAY, IMAGE_SELECTION_COUNT_NIGHT>>
locals == <<counts, total_files_required, average_files, selected_files,
            selection_count_per_hour, fi, gi>>
results == <<day_files, day_counts, night_files, night_counts>>
outputs == <<subset, full, report>>

\* lines 36-37 as first evaluated
DayHoursInit == PyRange(DayStart, DayEnd)
NightHoursInit == Without(PyRange(0, NumHours), Range(DayHoursInit))

NoReport == [daytime_selected |-> 0, daytime_images |-> 0,
             nighttime_selected |-> 0, nighttime_images |-> 0]

\* The interpreter before the module body runs: nothing is set yet.
Init ==
    /\ pc = "start"
    /\ all_files = <<>>
    /\ IMAGE_SELECTION_COUNT_DAY = 0
    /\ IMAGE_SELECTION_COUNT_NIGHT = 0
    /\ DAY_HOURS = <<>>
    /\ NIGHT_HOURS = <<>>
    /\ files_dict = EmptyDict
    /\ ci = 1
    /\ call = "none"
    /\ counts = <<>>
    /\ total_files_required = 0
    /\ average_files = 0
    /\ selected_files = <<>>
    /\ selection_count_per_hour = EmptyDict
    /\ fi = 1
    /\ gi = 1
    /\ day_files = <<>>
    /\ day_counts = EmptyDict
    /\ night_files = <<>>
    /\ night_counts = EmptyDict
    /\ subset = [daytime |-> {}, nighttime |-> {}]
    /\ full = EmptyDict
    /\ report = NoReport

\* ------------------------------------------------------------ lines 27-80
\* The settings are set, the two lists of hours built, the source directory
\* is found to hold images (line 45 exits otherwise), the destination
\* directories are made and the listing is taken.
Start ==
    /\ pc = "start"
    /\ all_files' \in Listings
    /\ IMAGE_SELECTION_COUNT_DAY' \in 0..MaxReq
    /\ IMAGE_SELECTION_COUNT_NIGHT' \in 0..MaxReq
    /\ DAY_HOURS' = DayHoursInit
    /\ NIGHT_HOURS' = NightHoursInit
    /\ full' = IF COPY_TO_FULL = "daynight"
               THEN [daytime |-> {}, nighttime |-> {}] ELSE EmptyDict
    /\ files_dict' = EmptyDict
    /\ pc' = "categorize"
    /\ UNCHANGED <<ci, call, locals, results, subset, report>>

\* ------------------------------------------------------------ lines 81-83
\* One turn of the categorising loop.  A name int() or the index rejects
\* raises, and nothing catches it: the script ends there.
Categorize ==
    /\ pc = "categorize"
    /\ LET file_name == all_files[ci]
           hour == HourOf(file_name)
       IN  IF ~hour.ok
           THEN /\ pc' = "aborted"
                /\ UNCHANGED <<files_dict, ci, call>>
           ELSE /\ files_dict' = DictSet(files_dict, hour.val,
                        Append(DictGet(files_dict, hour.val, <<>>), file_name))
                /\ IF ci = Len(all_files)
                   THEN pc' = "begin" /\ call' = "day" /\ ci' = ci
                   ELSE pc' = "categorize" /\ call' = call /\ ci' = ci + 1
    /\ UNCHANGED <<settings, DAY_HOURS, NIGHT_HOURS, locals, results, outputs>>

\* ---------------------------------------------------- distribute_files
\* The list the parameter `hours` is bound to: the caller's own list.
Hours == IF call = "day" THEN DAY_HOURS ELSE NIGHT_HOURS

\* The argument total_files_required of the running call (lines 130, 131)
Requested ==
    IF call = "day" THEN IMAGE_SELECTION_COUNT_DAY ELSE IMAGE_SELECTION_COUNT_NIGHT

\* line 88: hour -> number of files, in the order of hours
CountsOf(hours) ==
    [i \in 1..Len(hours) |->
        [hour |-> hours[i], count |-> Len(DictGet(files_dict, hours[i], <<>>))]]

\* line 91
TotalAvailable(cs) == SumSeq([i \in 1..Len(cs) |-> cs[i].count])

\* the adjustment left out
ClampTargetUnclamped(required, available) == required

\* lines 92-93
ClampTarget(required, available) ==
    IF required > available THEN available ELSE required

\* line 97
Average(required, n) == required \div n

\* < written for <=
TakeAllStrict(count, average) == count < average

\* line 106
TakeAll(count, average) == count <= average

\* > 1 written for > 0
GreedyContinuesOffByOne(required, hours) == required > 1 /\ hours # <<>>

\* 1 taken off whatever the hour held
RequiredAfterTakeOne(required, count) == required - 1

\* line 110
RequiredAfterTake(required, count) == required - count

\* line 114
GreedyContinues(required, hours) == required > 0 /\ hours # <<>>

\* the filter on selected_files left out
AvailableFilesUnfiltered(bucket, selected) == bucket

\* line 118
AvailableFiles(bucket, selected) == Without(bucket, Range(selected))

\* the count set instead of incremented
CountAfterPickReset(sc, hour) == DictSet(sc, hour, 1)

\* line 121
CountAfterPick(sc, hour) == DictSet(sc, hour, DictGet(sc, hour, 0) + 1)

\* the loop stays on the hour it is at
NextBucketStays(i) == i

\* line 115: the for loop moves on to the next hour of the list
NextBucket(i) == i + 1

\* lines 88-103; line 97 divides by zero for an empty list of hours
Begin ==
    /\ pc = "begin"
    /\ LET cs == CountsOf(Hours)
           required == ClampTarget(Requested, TotalAvailable(cs))
       IN  IF Len(Hours) = 0
           THEN /\ pc' = "aborted"
                /\ UNCHANGED locals
           ELSE /\ pc' = "fairness"
                /\ counts' = cs
                /\ total_files_required' = required
                /\ average_files' = Average(required, Len(Hours))
                /\ selected_files' = <<>>
                /\ selection_count_per_hour' = EmptyDict
                /\ fi' = 1
                /\ gi' = 1
    /\ UNCHANGED <<settings, DAY_HOURS, NIGHT_HOURS, files_dict, ci, call,
                   results, outputs>>

\* lines 105-111: one turn of the loop over counts.items()
Fairness ==
    /\ pc = "fairness"
    /\ LET hour == counts[fi].hour
           count == counts[fi].count
       IN  IF TakeAll(count, average_files)
           THEN /\ selected_files' =
                        selected_files \o DictGet(files_dict, hour, <<>>)
                /\ selection_count_per_hour' =
                        DictSet(selection_count_per_hour, hour, count)
                /\ IF call = "day"
                   THEN /\ DAY_HOURS' = ListRemove(DAY_HOURS, hour)
                        /\ UNCHANGED NIGHT_HOURS
                   ELSE /\ NIGHT_HOURS' = ListRemove(NIGHT_HOURS, hour)
                        /\ UNCHANGED DAY_HOURS
                /\ total_files_required' =
                        RequiredAfterTake(total_files_required, count)
           ELSE UNCHANGED <<selected_files, selection_count_per_hour,
                            DAY_HOURS, NIGHT_HOURS, total_files_required>>
    /\ IF fi = Len(counts)
       THEN pc' = "while" /\ fi' = fi
       ELSE pc' = "fairness" /\ fi' = fi + 1
    /\ UNCHANGED <<settings, files_dict, ci, call, counts, average_files, gi,
                   results, outputs>>

\* line 114: the test of the while loop
While ==
    /\ pc = "while"
    /\ IF GreedyContinues(total_files_required, Hours)
       THEN pc' = "for" /\ gi' = 1
       ELSE pc' = "return" /\ gi' = gi
    /\ UNCHANGED <<settings, DAY_HOURS, NIGHT_HOURS, files_dict, ci, call,
                   counts, total_files_required, average_files, selected_files,
                   selection_count_per_hour, fi, results, outputs>>

\* After a turn of the for loop at position gi: the next hour, or the while test.
AfterTurn ==
    IF NextBucket(gi) > Len(Hours)
    THEN pc' = "while" /\ gi' = gi
    ELSE pc' = "for" /\ gi' = NextBucket(gi)

\* lines 116-117
Break ==
    /\ pc = "for"
    /\ total_files_required <= 0
    /\ pc' = "while"
    /\ UNCHANGED <<settings, DAY_HOURS, NIGHT_HOURS, files_dict, ci, call,
                   locals, results, outputs>>

\* lines 118-123, a file is left: random.choice takes any of them.
\* files_dict[hour] raises a KeyError for an hour without an entry.
Choose ==
    /\ pc = "for"
    /\ total_files_required > 0
    /\ LET hour == Hours[gi]
       IN  IF hour \notin DOMAIN files_dict
           THEN /\ pc' = "aborted"
                /\ UNCHANGED <<selected_files, selection_count_per_hour,
                               total_files_required, gi>>
           ELSE LET available_files ==
                        AvailableFiles(files_dict[hour], selected_files)
                IN  /\ available_files # <<>>
                    /\ \E f \in Range(available_files) :
                            selected_files' = Append(selected_files, f)
                    /\ selection_count_per_hour' =
                            CountAfterPick(selection_count_per_hour, hour)
                    /\ total_files_required' = total_files_required - 1
                    /\ AfterTurn
    /\ UNCHANGED <<settings, DAY_HOURS, NIGHT_HOURS, files_dict, ci, call,
                   counts, average_files, fi, results, outputs>>

\* lines 118-119, no file of the hour is left: the turn selects nothing
Skip ==
    /\ pc = "for"
    /\ total_files_required > 0
    /\ Hours[gi] \in DOMAIN files_dict
    /\ AvailableFiles(files_dict[Hours[gi]], selected_files) = <<>>
    /\ AfterTurn
    /\ UNCHANGED <<settings, DAY_HOURS, NIGHT_HOURS, files_dict, ci, call,
                   counts, total_files_required, average_files, selected_files,
                   selection_count_per_hour, fi, results, outputs>>

\* line 127 and the assignment at line 130 or 131; the frame is dropped
Return ==
    /\ pc = "return"
    /\ IF call = "day"
       THEN /\ day_files' = selected_files
            /\ day_counts' = selection_count_per_hour
            /\ UNCHANGED <<night_files, night_counts>>
            /\ pc' = "begin"
            /\ call' = "night"
       ELSE /\ night_files' = selected_files
            /\ night_counts' = selection_count_per_hour
            /\ UNCHANGED <<day_files, day_counts>>
            /\ pc' = "copy"
            /\ call' = "none"
    /\ counts' = <<>>
    /\ total_files_required' = 0
    /\ average_files' = 0
    /\ selected_files' = <<>>
    /\ selection_count_per_hour' = EmptyDict
    /\ fi' = 1
    /\ gi' = 1
    /\ UNCHANGED <<settings, DAY_HOURS, NIGHT_HOURS, files_dict, ci, outputs>>

\* ---------------------------------------------------------- lines 134-154
\* lines 134-138: the two loops that fill subset/
CopySubset ==
    /\ pc = "copy"
    /\ subset' = [daytime |-> Range(day_files), nighttime |-> Range(night_files)]
    /\ pc' = "copy_full"
    /\ UNCHANGED <<settings, DAY_HOURS, NIGHT_HOURS, files_dict, ci, call,
                   locals, results, full, report>>

\* line 151: hour in DAY_HOURS, with the list as it is by then
InDayHours(hour) == hour \in Range(DAY_HOURS)

\* lines 141-154: the loop that fills full/ (every name parsed at line 82)
CopyFull ==
    /\ pc = "copy_full"
    /\ full' =
        IF COPY_TO_FULL = "timeslots"
        THEN [hour \in DOMAIN files_dict |-> Range(files_dict[hour])]
        ELSE IF COPY_TO_FULL = "daynight"
        THEN [daytime |->
                {f \in Range(all_files) : InDayHours(HourOf(f).val)},
              nighttime |->
                {f \in Range(all_files) : ~InDayHours(HourOf(f).val)}]
        ELSE full
    /\ pc' = "report"
    /\ UNCHANGED <<settings, DAY_HOURS, NIGHT_HOURS, files_dict, ci, call,
                   locals, results, subset, report>>

\* sum of the values of a dict of counts
RECURSIVE SumDict(_)
SumDict(d) ==
    IF DOMAIN d = {} THEN 0
    ELSE LET k == CHOOSE x \in DOMAIN d : TRUE
         IN  d[k] + SumDict([x \in (DOMAIN d) \ {k} |-> d[x]])

\* sum([len(files_dict.get(hour, [])) for hour in hours])
ImagesOf(hours) ==
    SumSeq([i \in 1..Len(hours) |-> Len(DictGet(files_dict, hours[i], <<>>))])

\* lines 156-198: the totals the report prints
Report ==
    /\ pc = "report"
    /\ report' = [daytime_selected |-> SumDict(day_counts),
                  daytime_images |-> ImagesOf(DAY_HOURS),
                  nighttime_selected |-> SumDict(night_counts),
                  nighttime_images |-> ImagesOf(NIGHT_HOURS)]
    /\ pc' = "done"
    /\ UNCHANGED <<settings, DAY_HOURS, NIGHT_HOURS, files_dict, ci, call,
                   locals, results, subset, full>>

\* Everything after the listing is taken.
Run ==
    \/ Categorize
    \/ Begin
    \/ Fairness
    \/ While
    \/ Break
    \/ Choose
    \/ Skip
    \/ Return
    \/ CopySubset
    \/ CopyFull
    \/ Report

Next == Start \/ Run

Spec == Init /\ [][Next]_vars

\* The script as it is set: the same count asked of both groups (lines 31-32).
StartEqualCounts ==
    /\ Start
    /\ IMAGE_SELECTION_COUNT_NIGHT' = IMAGE_SELECTION_COUNT_DAY'

NextEqualCounts == StartEqualCounts \/ Run

\* The script runs to its end: no step it can take is put off for ever.
FairSpec ==
    Init /\ [][NextEqualCounts]_vars /\ WF_vars(NextEqualCounts)

TypeOK ==
    /\ pc \in {"start", "categorize", "begin", "fairness", "while", "for", "return",
               "copy", "copy_full", "report", "done", "aborted"}
    /\ call \in {"none", "day", "night"}
    /\ ci \in 1..(Len(all_files) + 1)

\* ================================================================ claims
\* The group of the running call as the caller defined it, and its buckets.
GroupKeys == IF call = "day" THEN DayHoursInit ELSE NightHoursInit
BucketSize(hour) == Len(DictGet(files_dict, hour, <<>>))
GroupTotal == SumSeq([i \in 1..Len(GroupKeys) |-> BucketSize(GroupKeys[i])])
GroupFiles ==
    UNION {Range(DictGet(files_dict, h, <<>>)) : h \in Range(GroupKeys)}
Clamped == Min(Requested, GroupTotal)
SelCount(hour) == DictGet(selection_count_per_hour, hour, 0)
Returning == pc = "return"
NoDuplicates(s) == \A i, j \in 1..Len(s) : s[i] = s[j] => i = j

RECURSIVE ConcatBuckets(_)
ConcatBuckets(hours) ==
    IF hours = <<>> THEN <<>>
    ELSE DictGet(files_dict, Head(hours), <<>>) \o ConcatBuckets(Tail(hours))

RECURSIVE Categorized(_)
Categorized(files) ==
    IF files = <<>> THEN EmptyDict
    ELSE LET d == Categorized(SubSeq(files, 1, Len(files) - 1))
             f == files[Len(files)]
             h == HourOf(f).val
         IN  DictSet(d, h, Append(DictGet(d, h, <<>>), f))

\* C1: when distribute_files returns, the per-hour counts add up to the number
\* of selected files, which is at most the clamped target and at most the
\* number of files the group holds.
C1_CountsAddUp ==
    Returning =>
        /\ SumDict(selection_count_per_hour) = Len(selected_files)
        /\ Len(selected_files) <= Clamped
        /\ Len(selected_files) <= GroupTotal

\* C1 witness: a call returns several files, fewer than the group holds.
C1_Witness ==
    /\ Returning
    /\ Len(selected_files) >= 2
    /\ Len(selected_files) < GroupTotal

\* C2: distribute_files returns exactly min(requested, available) files, and
\* the greedy pass has brought the remaining target to 0.
C2_ExactCount ==
    Returning =>
        /\ Len(selected_files) = Min(Requested, GroupTotal)
        /\ total_files_required = 0

\* C2 witness: a scarce hour was taken whole by the fairness pass and the
\* greedy pass supplied the rest of a request smaller than the group.
C2_Witness ==
    /\ Returning
    /\ Requested < GroupTotal
    /\ \E h \in Range(GroupKeys) : h \notin Range(Hours) /\ BucketSize(h) > 0
    /\ \E h \in Range(Hours) : SelCount(h) > 0

\* C3: a request of at least the group's total returns every file of every
\* hour of the group, and every hour's recorded count is the hour's size.
C3_TakeEverything ==
    (Returning /\ Requested >= GroupTotal) =>
        /\ Range(selected_files) = GroupFiles
        /\ Len(selected_files) = GroupTotal
        /\ \A h \in Range(GroupKeys) :
              /\ h \in DOMAIN selection_count_per_hour
              /\ selection_count_per_hour[h] = BucketSize(h)

\* C3 witness: such a request, part of it served by the greedy pass.
C3_Witness ==
    /\ Returning
    /\ Requested >= GroupTotal
    /\ \E h \in Range(Hours) : SelCount(h) >= 2

\* C4: the selection never holds a file twice, at any step of either pass,
\* nor do the two returned lists.
C4_NoDuplicates ==
    /\ NoDuplicates(selected_files)
    /\ NoDuplicates(day_files)
    /\ NoDuplicates(night_files)

\* C4 witness: the greedy pass is at an hour of which it has selected one
\* file and not yet another.
C4_Witness ==
    /\ pc = "for"
    /\ total_files_required > 0
    /\ Hours[gi] \in DOMAIN files_dict
    /\ \E f \in Range(files_dict[Hours[gi]]) : f \in Range(selected_files)
    /\ \E f \in Range(files_dict[Hours[gi]]) : f \notin Range(selected_files)

\* C5: after both sampling calls the two lists of hours are what lines 36-37
\* made them and files_dict is what the categorising loop built.
C5_InputsUntouched ==
    pc \in {"copy", "copy_full", "report", "done"} =>
        /\ DAY_HOURS = DayHoursInit
        /\ NIGHT_HOURS = NightHoursInit
        /\ files_dict = Categorized(all_files)

\* The hour field of a name: field 4 exists and starts with two digits that
\* are an hour of the day.
HasHourField(file_name) ==
    LET fields == Split(file_name)
    IN  /\ Len(fields) >= 5
        /\ Len(fields[5]) >= 2
        /\ fields[5][1] \in DigitChars
        /\ fields[5][2] \in DigitChars
        /\ DigitsValue(Slice(fields[5], 2), 0) \in 0..(NumHours - 1)

\* C6: every key of files_dict is an hour of the day, and only names with a
\* two-digit hour field in range are ever put in a bucket.
C6_KeysAreHours ==
    \A k \in DOMAIN files_dict :
        /\ k \in 0..(NumHours - 1)
        /\ \A f \in Range(files_dict[k]) : HasHourField(f)

\* C7: once the full copy is done, every file of a day hour is in
\* full/daytime and every other file is in full/nighttime.
C7_FullCopyByHour ==
    (pc \in {"report", "done"} /\ COPY_TO_FULL = "daynight") =>
        \A f \in Range(all_files) :
            IF HourOf(f).val \in DayStart..(DayEnd - 1)
            THEN f \in full.daytime /\ f \notin full.nighttime
            ELSE f \in full.nighttime /\ f \notin full.daytime

\* The fairness pass is over.
PastFairness == pc \in {"while", "for", "return"}

\* The fairness pass alone served the call: every hour was taken whole and
\* removed, nothing is left to ask for, the greedy loop body is not entered.
FairnessAlone ==
    /\ pc # "for"
    /\ Hours = <<>>
    /\ total_files_required = 0
    /\ selected_files = ConcatBuckets(GroupKeys)

\* C8 as stated: every hour's size is at most requested // number of hours
\* implies the fairness pass alone serves the call.
C8_AsStated ==
    (PastFairness /\ \A h \in Range(GroupKeys) :
                        BucketSize(h) <= Requested \div Len(GroupKeys))
        => FairnessAlone

\* C8 amended: the same with the clamped target in place of the requested one.
C8_FairnessAlone ==
    (PastFairness /\ \A h \in Range(GroupKeys) :
                        BucketSize(h) <= Clamped \div Len(GroupKeys))
        => FairnessAlone

\* C8 witness: a call returns a group with files, all within the average.
C8_Witness ==
    /\ Returning
    /\ GroupTotal > 0
    /\ \A h \in Range(GroupKeys) : BucketSize(h) <= Clamped \div Len(GroupKeys)

\* In the greedy pass every remaining hour has an entry in files_dict, and
\* while files are still asked for some remaining hour has one left.
GreedySafe ==
    /\ \A h \in Range(Hours) : h \in DOMAIN files_dict /\ BucketSize(h) > 0
    /\ total_files_required > 0 =>
          \E h \in Range(Hours) :
              AvailableFiles(files_dict[h], selected_files) # <<>>

\* C9: every call of distribute_files returns: the greedy pass never looks up
\* a missing hour nor sweeps hours that are all exhausted.
C9_Terminates ==
    /\ [](pc \in {"while", "for"} => GreedySafe)
    /\ (pc = "begin") ~> (pc = "return")

\* C9 witness: the greedy pass, files still asked for, at an exhausted hour.
C9_Witness ==
    /\ pc = "for"
    /\ total_files_required > 0
    /\ Hours[gi] \in DOMAIN files_dict
    /\ AvailableFiles(files_dict[Hours[gi]], selected_files) = <<>>

\* C10: on return every hour of the group has a count between
\* min(size, average) and size, the average being clamped target // number of
\* hours; the hours within the average were taken whole by the fairness pass.
C10_FairShare ==
    LET average == Clamped \div Len(GroupKeys)
    IN  /\ Returning =>
            \A h \in Range(GroupKeys) :
                /\ Min(BucketSize(h), average) <= SelCount(h)
                /\ SelCount(h) <= BucketSize(h)
        /\ PastFairness =>
            \A h \in Range(GroupKeys) :
                BucketSize(h) <= average =>
                    /\ h \notin Range(Hours)
                    /\ h \in DOMAIN selection_count_per_hour
                    /\ selection_count_per_hour[h] = BucketSize(h)

\* C10 witness: an hour above a positive average got exactly the average.
C10_Witness ==
    /\ Returning
    /\ Clamped \div Len(GroupKeys) >= 1
    /\ \E h \in Range(Hours) :
          /\ SelCount(h) = Clamped \div Len(GroupKeys)
          /\ BucketSize(h) > SelCount(h)

====
